---- MODULE Spec2Model ----
(***************************************************************************)
(* Model of the quality-assessment engine of src/data_quality.py           *)
(* (assess_data_quality).  A table (pandas DataFrame) is a row count and a *)
(* sequence of named, typed columns; a text value is a sequence of         *)
(* one-character strings, so that the pattern checks (email, year, float   *)
(* parse, keyword in name) are computed on the characters.  Floating-point *)
(* results are modelled as exact rationals [n, d] in lowest terms.         *)
(***************************************************************************)
EXTENDS Integers, Sequences, FiniteSets, TLC

VARIABLES df, current_year, mixed_tz, pc, report

vars == <<df, current_year, mixed_tz, pc, report>>

----------------------------------------------------------------------------
(* Bounds of the generated tables *)

MaxRows == 4

MaxCols == 2

MaxCells == 4

LongLen == 11

----------------------------------------------------------------------------
(* Characters and strings *)

Digits == <<"0", "1", "2", "3", "4", "5", "6", "7", "8", "9">>

UpperLetters == <<"A", "B", "C", "D", "E", "F", "G", "H", "I", "J", "K", "L", "M",
                  "N", "O", "P", "Q", "R", "S", "T", "U", "V", "W", "X", "Y", "Z">>

LowerLetters == <<"a", "b", "c", "d", "e", "f", "g", "h", "i", "j", "k", "l", "m",
                  "n", "o", "p", "q", "r", "s", "t", "u", "v", "w", "x", "y", "z">>

Range(s) == {s[i] : i \in DOMAIN s}

DigitSet == Range(Digits)

UpperSet == Range(UpperLetters)

LetterSet == Range(UpperLetters) \cup Range(LowerLetters)

IsDigit(c) == c \in DigitSet

IsLetter(c) == c \in LetterSet

DigitVal(c) == (CHOOSE i \in DOMAIN Digits : Digits[i] = c) - 1

\* str.lower() on one character
LowerChar(c) ==
    IF c \in UpperSet
    THEN LowerLetters[CHOOSE i \in DOMAIN UpperLetters : UpperLetters[i] = c]
    ELSE c

\* str.lower()
Lower(s) == [i \in DOMAIN s |-> LowerChar(s[i])]

\* Python's `sub in s` on strings
Contains(sub, s) ==
    \E k \in 0..(Len(s) - Len(sub)) :
        \A j \in 1..Len(sub) : s[k + j] = sub[j]

RECURSIVE NatToStr(_)
NatToStr(n) ==
    IF n < 10 THEN <<Digits[n + 1]>>
    ELSE NatToStr(n \div 10) \o <<Digits[(n % 10) + 1]>>

\* the value of a run of decimal digits
RECURSIVE DigitsToNat(_)
DigitsToNat(s) ==
    IF Len(s) = 0 THEN 0
    ELSE 10 * DigitsToNat(SubSeq(s, 1, Len(s) - 1)) + DigitVal(s[Len(s)])

----------------------------------------------------------------------------
(* Exact rationals for the floating-point results *)

Abs(x) == IF x < 0 THEN -x ELSE x

RECURSIVE GCD(_, _)
GCD(a, b) == IF b = 0 THEN a ELSE GCD(b, a % b)

\* n/d in lowest terms with d > 0; d = 0 stands for a failed division
Rat(n, d) ==
    IF d = 0 THEN [n |-> 0, d |-> 0]
    ELSE LET g == GCD(Abs(n), Abs(d))
             s == IF d < 0 THEN -1 ELSE 1
         IN [n |-> (s * n) \div g, d |-> (s * d) \div g]

RInt(k) == [n |-> k, d |-> 1]

RDefined(a) == a.d > 0

RAdd(a, b) == IF a.d = 0 \/ b.d = 0 THEN Rat(0, 0) ELSE Rat(a.n * b.d + b.n * a.d, a.d * b.d)

RSub(a, b) == IF a.d = 0 \/ b.d = 0 THEN Rat(0, 0) ELSE Rat(a.n * b.d - b.n * a.d, a.d * b.d)

RMul(a, b) == IF a.d = 0 \/ b.d = 0 THEN Rat(0, 0) ELSE Rat(a.n * b.n, a.d * b.d)

\* Python's a / b: a zero divisor raises
RDiv(a, b) == IF a.d = 0 \/ b.d = 0 \/ b.n = 0 THEN Rat(0, 0) ELSE Rat(a.n * b.d, a.d * b.n)

RLt(a, b) == a.d > 0 /\ b.d > 0 /\ a.n * b.d < b.n * a.d

RLe(a, b) == a.d > 0 /\ b.d > 0 /\ a.n * b.d <= b.n * a.d

\* Python's max(a, b)
RMax(a, b) == IF a.d = 0 \/ b.d = 0 THEN Rat(0, 0) ELSE IF RLt(a, b) THEN b ELSE a

RECURSIVE SumSeq(_)
SumSeq(s) == IF Len(s) = 0 THEN 0 ELSE s[1] + SumSeq(Tail(s))

RECURSIVE RSumSeq(_)
RSumSeq(s) == IF Len(s) = 0 THEN RInt(0) ELSE RAdd(s[1], RSumSeq(Tail(s)))

----------------------------------------------------------------------------
(* Cells, columns and the pandas operations the engine uses *)

\* float('inf'); every finite value of the generated tables is far below it
Inf == 1000000

Null == [t |-> "null", n |-> 0, s |-> <<>>]

Num(k) == [t |-> "num", n |-> k, s |-> <<>>]

Str(s) == [t |-> "str", n |-> 0, s |-> s]

IsNull(c) == c.t = "null"

CountIf(s, P(_)) == Cardinality({i \in DOMAIN s : P(s[i])})

\* Series.head(k)
HeadN(s, k) == SubSeq(s, 1, IF Len(s) < k THEN Len(s) ELSE k)

\* Series.dropna()
Dropna(col) == SelectSeq(col.cells, LAMBDA c : ~IsNull(c))

IsNumeric(col) == col.dtype \in {"int64", "float64"}

IsObject(col) == col.dtype = "object"

\* str(val) of one non-missing cell of a column of the given dtype
AsStr(c, dtype) ==
    IF c.t = "str" THEN c.s
    ELSE LET sign == IF c.n < 0 THEN <<"-">> ELSE <<>>
         IN IF Abs(c.n) = Inf THEN sign \o <<"i", "n", "f">>
            ELSE IF dtype = "float64" THEN sign \o NatToStr(Abs(c.n)) \o <<".", "0">>
            ELSE sign \o NatToStr(Abs(c.n))

\* Series.dropna().astype(str)
DropnaStr(col) ==
    LET nn == Dropna(col)
    IN [i \in DOMAIN nn |-> AsStr(nn[i], col.dtype)]

\* float(s) succeeds: sign, then digits with at most one point, or inf/nan
\* (exponents, underscores and blanks do not occur in the generated values)
IsFloatStr(s) ==
    LET body == IF Len(s) > 0 /\ s[1] \in {"+", "-"} THEN Tail(s) ELSE s
        dots == {i \in DOMAIN body : body[i] = "."}
    IN \/ Lower(body) \in {<<"i", "n", "f">>, <<"n", "a", "n">>,
                           <<"i", "n", "f", "i", "n", "i", "t", "y">>}
       \/ /\ Cardinality(dots) <= 1
          /\ \A i \in DOMAIN body : IsDigit(body[i]) \/ body[i] = "."
          /\ \E i \in DOMAIN body : IsDigit(body[i])

IsLocalChar(c) == IsLetter(c) \/ IsDigit(c) \/ c \in {".", "_", "%", "+", "-"}

IsDomainChar(c) == IsLetter(c) \/ IsDigit(c) \/ c \in {".", "-"}

\* re.match(r'^[a-zA-Z0-9._%+-]+@[a-zA-Z0-9.-]+\.[a-zA-Z]{2,}$', s)
MatchesEmail(s) ==
    \E p \in DOMAIN s : \E q \in DOMAIN s :
        /\ s[p] = "@" /\ p > 1
        /\ \A i \in 1..(p - 1) : IsLocalChar(s[i])
        /\ s[q] = "." /\ q > p + 1
        /\ \A i \in (p + 1)..(q - 1) : IsDomainChar(s[i])
        /\ Len(s) >= q + 2
        /\ \A i \in (q + 1)..Len(s) : IsLetter(s[i])

IsWordChar(c) == IsLetter(c) \/ IsDigit(c) \/ c = "_"

\* positions where r'\b(19|20)\d{2}\b' matches
YearMatches(s) ==
    {i \in DOMAIN s :
        /\ i + 3 <= Len(s)
        /\ \/ s[i] = "1" /\ s[i + 1] = "9"
           \/ s[i] = "2" /\ s[i + 1] = "0"
        /\ IsDigit(s[i + 2]) /\ IsDigit(s[i + 3])
        /\ i = 1 \/ ~IsWordChar(s[i - 1])
        /\ i + 3 = Len(s) \/ ~IsWordChar(s[i + 4])}

\* int(re.search(...).group()): the leftmost match
ExtractYear(s) ==
    LET i == CHOOSE k \in YearMatches(s) : \A m \in YearMatches(s) : k <= m
    IN DigitsToNat(SubSeq(s, i, i + 3))

DaysInMonth(y, m) ==
    IF m = 2 THEN (IF (y % 4 = 0 /\ y % 100 # 0) \/ y % 400 = 0 THEN 29 ELSE 28)
    ELSE IF m \in {4, 6, 9, 11} THEN 30 ELSE 31

\* the year of a calendar date written YYYY-MM-DD, 0 when it is none
IsoDateYear(s) ==
    IF /\ Len(s) = 10 /\ s[5] = "-" /\ s[8] = "-"
       /\ \A i \in {1, 2, 3, 4, 6, 7, 9, 10} : IsDigit(s[i])
    THEN LET y == DigitsToNat(SubSeq(s, 1, 4))
             m == DigitsToNat(SubSeq(s, 6, 7))
             d == DigitsToNat(SubSeq(s, 9, 10))
         IN IF y >= 1678 /\ y <= 2261 /\ m \in 1..12 /\ d \in 1..DaysInMonth(y, m)
            THEN y ELSE 0
    ELSE 0

\* " HH:MM:SS+HH:MM" or " HH:MM:SS-HH:MM" after the date
IsTimeWithOffset(t) ==
    /\ Len(t) = 15
    /\ t[1] = " " /\ t[4] = ":" /\ t[7] = ":" /\ t[13] = ":"
    /\ t[10] \in {"+", "-"}
    /\ \A i \in {2, 3, 5, 6, 8, 9, 11, 12, 14, 15} : IsDigit(t[i])
    /\ DigitsToNat(SubSeq(t, 2, 3)) < 24 /\ DigitsToNat(SubSeq(t, 5, 6)) < 60
    /\ DigitsToNat(SubSeq(t, 8, 9)) < 60
    /\ DigitsToNat(SubSeq(t, 11, 12)) < 24 /\ DigitsToNat(SubSeq(t, 14, 15)) < 60

\* pd.to_datetime(..., errors='coerce') on one string: the year of the parsed
\* date, 0 for NaT.  Modelled for the two date spellings among the generated
\* values: YYYY-MM-DD, and YYYY-MM-DD HH:MM:SS with a UTC offset.
ParsedYear(s) ==
    IF Len(s) = 10 THEN IsoDateYear(s)
    ELSE IF Len(s) = 25 /\ IsTimeWithOffset(SubSeq(s, 11, 25))
    THEN IsoDateYear(SubSeq(s, 1, 10))
    ELSE 0

\* the UTC offset of a parsed value, empty for a value without one
TzOffset(s) == IF Len(s) = 25 THEN SubSeq(s, 20, 25) ELSE <<>>

\* the parsed values do not share one offset: to_datetime cannot build a
\* datetime64 column of them
MixedOffsets(strs) ==
    Cardinality({TzOffset(strs[i]) : i \in {k \in DOMAIN strs : ParsedYear(strs[k]) # 0}}) > 1

----------------------------------------------------------------------------
(* assess_data_quality, section by section *)

total_rows(d) == d.nrows

total_columns(d) == Len(d.cols)

\* variant: the cell count without the floor of 1
total_cells_nofloor(d) == total_rows(d) * total_columns(d)

total_cells(d) ==
    IF total_rows(d) * total_columns(d) > 0 THEN total_rows(d) * total_columns(d) ELSE 1

\* score helper: x / total_cells * k
PerCell(x, d, k) == RMul(RDiv(RInt(x), RInt(total_cells(d))), RInt(k))

\* 1. Completeness
\* variant: only the first column is scanned for missing cells
missing_values_first(d) ==
    IF Len(d.cols) = 0 THEN 0 ELSE CountIf(d.cols[1].cells, IsNull)

missing_values(d) ==
    SumSeq([j \in DOMAIN d.cols |-> CountIf(d.cols[j].cells, IsNull)])

missing_percentage(d) == PerCell(missing_values(d), d, 100)

completeness_score(d) == RSub(RInt(100), missing_percentage(d))

\* 2. Consistency
numeric_count(col) == CountIf(HeadN(Dropna(col), 100), LAMBDA c : IsFloatStr(AsStr(c, col.dtype)))

TypeInconsistent(col) ==
    LET n  == Len(HeadN(Dropna(col), 100))
        nc == numeric_count(col)
    IN /\ IsObject(col)
       /\ n > 0
       /\ nc * 10 > n * 2
       /\ nc * 10 < n * 8

type_inconsistencies(d) ==
    SumSeq([j \in DOMAIN d.cols |-> IF TypeInconsistent(d.cols[j]) THEN 1 ELSE 0])

\* variant: any value holding '@' triggers the email check
EmailChecked_any(strs) == \E i \in DOMAIN strs : Contains(<<"@">>, strs[i])

EmailChecked(strs) ==
    /\ Len(strs) > 0
    /\ Contains(<<"@">>, strs[1])

invalid_emails(col) ==
    LET strs == DropnaStr(col)
    IN IF EmailChecked(strs)
       THEN CountIf(strs, LAMBDA v : ~MatchesEmail(v))
       ELSE 0

consistency_issues(d) == SumSeq([j \in DOMAIN d.cols |-> invalid_emails(d.cols[j])])

consistency_score(d) ==
    RMax(RInt(0), RSub(RSub(RInt(100), PerCell(consistency_issues(d), d, 100)),
                       RInt(type_inconsistencies(d) * 10)))

\* 3. Uniqueness
Row(d, i) == [j \in DOMAIN d.cols |-> d.cols[j].cells[i]]

\* variant: every member of a group of identical rows is counted (keep=False)
duplicate_rows_all(d) ==
    IF total_rows(d) = 0 \/ total_columns(d) = 0 THEN 0
    ELSE Cardinality({i \in 1..total_rows(d) :
                        \E k \in 1..total_rows(d) : k # i /\ Row(d, k) = Row(d, i)})

\* variant: the rows that are not duplicates are counted
duplicate_rows_negated(d) ==
    IF total_rows(d) = 0 \/ total_columns(d) = 0 THEN 0
    ELSE Cardinality({i \in 1..total_rows(d) : ~\E k \in 1..(i - 1) : Row(d, k) = Row(d, i)})

\* DataFrame.duplicated().sum(); pandas returns an empty result for a frame
\* without rows or without columns
duplicate_rows(d) ==
    IF total_rows(d) = 0 \/ total_columns(d) = 0 THEN 0
    ELSE Cardinality({i \in 1..total_rows(d) : \E k \in 1..(i - 1) : Row(d, k) = Row(d, i)})

duplicate_percentage(d) ==
    IF total_rows(d) > 0
    THEN RMul(RDiv(RInt(duplicate_rows(d)), RInt(total_rows(d))), RInt(100))
    ELSE RInt(0)

\* Series.duplicated().sum()
SeriesDuplicates(col) ==
    Cardinality({i \in DOMAIN col.cells : \E k \in 1..(i - 1) : col.cells[k] = col.cells[i]})

duplicate_values_count(d) ==
    SumSeq([j \in DOMAIN d.cols |->
              IF IsObject(d.cols[j]) THEN SeriesDuplicates(d.cols[j]) ELSE 0])

uniqueness_score(d) ==
    RMax(RInt(0), RSub(RSub(RInt(100), duplicate_percentage(d)),
                       PerCell(duplicate_values_count(d), d, 50)))

\* 4. Validity
\* variant: the keywords are looked up without lower()
NonNegativeName_cased(col) ==
    \/ Contains(<<"a", "g", "e">>, col.name)
    \/ Contains(<<"c", "o", "u", "n", "t">>, col.name)
    \/ Contains(<<"q", "u", "a", "n", "t", "i", "t", "y">>, col.name)

NonNegativeName(col) ==
    \/ Contains(<<"a", "g", "e">>, Lower(col.name))
    \/ Contains(<<"c", "o", "u", "n", "t">>, Lower(col.name))
    \/ Contains(<<"q", "u", "a", "n", "t", "i", "t", "y">>, Lower(col.name))

ColumnValidityIssues(col) ==
    LET nn == Dropna(col)
    IN IF Len(nn) = 0 THEN 0
       ELSE (IF IsNumeric(col) THEN CountIf(nn, LAMBDA c : Abs(c.n) = Inf) ELSE 0)
            + (IF IsNumeric(col) /\ NonNegativeName(col)
               THEN CountIf(nn, LAMBDA c : c.n < 0) ELSE 0)
            + (IF IsObject(col)
               THEN CountIf(nn, LAMBDA c : Len(AsStr(c, col.dtype)) > 1000) ELSE 0)

validity_issues(d) == SumSeq([j \in DOMAIN d.cols |-> ColumnValidityIssues(d.cols[j])])

validity_score(d) == RMax(RInt(0), RSub(RInt(100), PerCell(validity_issues(d), d, 100)))

\* 5. Accuracy
\* the k-th smallest (k from 0) of a sequence of numbers
KthSmallest(v, k) ==
    CHOOSE x \in Range(v) :
        /\ Cardinality({i \in DOMAIN v : v[i] < x}) <= k
        /\ Cardinality({i \in DOMAIN v : v[i] <= x}) > k

\* Series.quantile(q4 / 4), linear interpolation between the two nearest ranks
\* (finite values; the generated columns with more than 10 values have no inf)
Quantile(v, q4) ==
    LET pos == (Len(v) - 1) * q4
        lo  == pos \div 4
        hi  == IF lo + 1 < Len(v) THEN lo + 1 ELSE lo
        r   == pos % 4
    IN Rat(KthSmallest(v, lo) * (4 - r) + KthSmallest(v, hi) * r, 4)

ColumnOutliers(col) ==
    LET nn  == Dropna(col)
        v   == [i \in DOMAIN nn |-> nn[i].n]
        Q1  == Quantile(v, 1)
        Q3  == Quantile(v, 3)
        IQR == RSub(Q3, Q1)
        lower_bound == RSub(Q1, RMul(RInt(3), IQR))
        upper_bound == RAdd(Q3, RMul(RInt(3), IQR))
    IN IF IsNumeric(col) /\ Len(v) > 10
       THEN IF RLt(RInt(0), IQR)
            THEN CountIf(v, LAMBDA x : RLt(RInt(x), lower_bound) \/ RLt(upper_bound, RInt(x)))
            ELSE 0
       ELSE 0

accuracy_issues(d) == SumSeq([j \in DOMAIN d.cols |-> ColumnOutliers(d.cols[j])])

accuracy_score(d) == RMax(RInt(0), RSub(RInt(100), PerCell(accuracy_issues(d), d, 50)))

\* 6. Timeliness
\* 'year', 'date' and the Arabic keywords; an Arabic letter is written as its
\* code point
YearKeywords ==
    { <<"y", "e", "a", "r">>,
      <<"d", "a", "t", "e">>,
      <<"U+0639", "U+0627", "U+0645">>,
      <<"U+0633", "U+0646", "U+0629">>,
      <<"U+0633", "U+0646", "U+0647">>,
      <<"U+062A", "U+0627", "U+0631", "U+064A", "U+062E">> }

is_year_column(col) == \E kw \in YearKeywords : Contains(kw, Lower(col.name))

InYearRange(x) == x >= 1900 /\ x <= 2100

\* variant: a year exactly 10 years back counts as old
IsOld_inclusive(y, cy) == y <= cy - 10

IsOld(y, cy) == y < cy - 10

B2N(b) == IF b THEN 1 ELSE 0

\* strategy 1: numeric column, more than 70% of the values in [1900, 2100]
NumericHit(col, nn) ==
    /\ IsNumeric(col)
    /\ Len(nn) > 0
    /\ CountIf(nn, LAMBDA c : InYearRange(c.n)) * 10 > Len(nn) * 7

\* strategy 2, up to the increment: text column, pd.to_datetime does not
\* raise, more than 50% of the values parse as dates.  lib is what
\* pd.to_datetime does with mixed offsets: "object" (an object-dtype result,
\* pandas before 3.0) or "raise" (a ValueError, caught before anything is
\* counted)
DateCounted(col, strs, lib) ==
    /\ IsObject(col)
    /\ Len(strs) > 0
    /\ ~(MixedOffsets(strs) /\ lib = "raise")
    /\ CountIf(strs, LAMBDA v : ParsedYear(v) # 0) * 2 > Len(strs)

\* strategy 2, to its end: .dt.year raises on an object-dtype result, the
\* except clause is entered after the increment and before
\* year_values_found is set
DateHit(strs, date_counted) == date_counted /\ ~MixedOffsets(strs)

\* strategy 3: text column with year_values_found still False, more than 50%
\* of the first 100 values hold a year
PatternHit(col, strs, date_hit) ==
    /\ IsObject(col)
    /\ Len(strs) > 0
    /\ ~date_hit
    /\ CountIf(HeadN(strs, 100), LAMBDA v : YearMatches(v) # {}) * 2 > Len(HeadN(strs, 100))

\* strategy 4: the name holds a year keyword, nothing classified the column
\* yet, numeric column, more than 50% of the values in [1900, 2100]
NameHit(col, nn, year_values_found) ==
    /\ is_year_column(col)
    /\ ~year_values_found
    /\ Len(nn) > 0
    /\ IsNumeric(col)
    /\ CountIf(nn, LAMBDA c : InYearRange(c.n)) * 2 > Len(nn)

OldNumeric(nn, cy) == CountIf(nn, LAMBDA c : IsOld(c.n, cy))

OldDates(strs, cy) ==
    CountIf(strs, LAMBDA v : ParsedYear(v) # 0 /\ IsOld(ParsedYear(v), cy))

OldExtracted(strs, cy) ==
    CountIf(HeadN(strs, 100), LAMBDA v : YearMatches(v) # {} /\ IsOld(ExtractYear(v), cy))

\* what one pass adds to year_columns_found and to old_years_count
PassResult(nn, strs, cy, numeric_hit, date_counted, date_hit, pattern_hit, name_hit) ==
    [numeric |-> numeric_hit, date_counted |-> date_counted, date |-> date_hit,
     pattern |-> pattern_hit, name |-> name_hit,
     found |-> B2N(numeric_hit) + B2N(date_counted) + B2N(pattern_hit) + B2N(name_hit),
     old |-> (IF numeric_hit THEN OldNumeric(nn, cy) ELSE 0)
             + (IF date_hit THEN OldDates(strs, cy) ELSE 0)
             + (IF pattern_hit THEN OldExtracted(strs, cy) ELSE 0)
             + (IF name_hit THEN OldNumeric(nn, cy) ELSE 0)]

PassTail(col, nn, strs, cy, numeric_hit, date_counted, date_hit, pattern_hit) ==
    PassResult(nn, strs, cy, numeric_hit, date_counted, date_hit, pattern_hit,
               NameHit(col, nn, numeric_hit \/ date_hit \/ pattern_hit))

PassText(col, nn, strs, cy, numeric_hit, date_counted, date_hit) ==
    PassTail(col, nn, strs, cy, numeric_hit, date_counted, date_hit,
             PatternHit(col, strs, date_hit))

PassDates(col, nn, strs, cy, numeric_hit, date_counted) ==
    PassText(col, nn, strs, cy, numeric_hit, date_counted, DateHit(strs, date_counted))

\* one pass of the loop over the columns
ColumnTimeliness(col, cy, lib) ==
    PassDates(col, Dropna(col), DropnaStr(col), cy,
              NumericHit(col, Dropna(col)), DateCounted(col, DropnaStr(col), lib))

\* Python's None in the place of a score
None == [n |-> 0, d |-> -1]

\* the whole loop over the columns
YearColumns(d, cy, lib) ==
    LET per == [j \in DOMAIN d.cols |-> ColumnTimeliness(d.cols[j], cy, lib)]
    IN [year_columns_found |-> SumSeq([j \in DOMAIN per |-> per[j].found]),
        old_years_count    |-> SumSeq([j \in DOMAIN per |-> per[j].old])]

\* variant: 'or' in the place of 'and' in the applicability test
timeliness_score_or(d, found, old) ==
    IF found > 0 \/ total_rows(d) > 0
    THEN LET old_years_percentage == RMul(RDiv(RInt(old), RInt(total_rows(d))), RInt(100))
         IN RMax(RInt(0), RSub(RInt(100), RMul(old_years_percentage, Rat(3, 2))))
    ELSE None

\* variant: the score is not clamped at 0
timeliness_score_noclamp(d, found, old) ==
    IF found > 0 /\ total_rows(d) > 0
    THEN RSub(RInt(100), RMul(RMul(RDiv(RInt(old), RInt(total_rows(d))), RInt(100)), Rat(3, 2)))
    ELSE None

timeliness_score(d, found, old) ==
    IF found > 0 /\ total_rows(d) > 0
    THEN LET old_years_percentage == RMul(RDiv(RInt(old), RInt(total_rows(d))), RInt(100))
         IN RMax(RInt(0), RSub(RInt(100), RMul(old_years_percentage, Rat(3, 2))))
    ELSE None

\* Column details and the overall score
column_details(d) ==
    [j \in DOMAIN d.cols |->
        [name |-> d.cols[j].name, type |-> d.cols[j].dtype,
         missing |-> CountIf(d.cols[j].cells, IsNull)]]

\* variant: an inapplicable timeliness enters the average as 0
applicable_scores_zero(five, timeliness) ==
    five \o (IF timeliness # None THEN <<timeliness>> ELSE <<RInt(0)>>)

applicable_scores(five, timeliness) ==
    five \o (IF timeliness # None THEN <<timeliness>> ELSE <<>>)

overall_score(scores) ==
    IF Len(scores) > 0 THEN RDiv(RSumSeq(scores), RInt(Len(scores))) ELSE RInt(0)

\* the returned report
assess_data_quality(d, cy, lib) ==
    LET completeness == completeness_score(d)
        consistency  == consistency_score(d)
        uniqueness   == uniqueness_score(d)
        validity     == validity_score(d)
        accuracy     == accuracy_score(d)
        yc           == YearColumns(d, cy, lib)
        timeliness   == timeliness_score(d, yc.year_columns_found, yc.old_years_count)
        scores       == applicable_scores(<<completeness, consistency, uniqueness,
                                            validity, accuracy>>, timeliness)
    IN [total_rows            |-> total_rows(d),
        total_columns         |-> total_columns(d),
        overall_score         |-> overall_score(scores),
        completeness_score    |-> completeness,
        missing_values        |-> missing_values(d),
        missing_percentage    |-> missing_percentage(d),
        consistency_score     |-> consistency,
        consistency_issues    |-> consistency_issues(d),
        type_inconsistencies  |-> type_inconsistencies(d),
        uniqueness_score      |-> uniqueness,
        duplicate_rows        |-> duplicate_rows(d),
        duplicate_percentage  |-> duplicate_percentage(d),
        validity_score        |-> validity,
        validity_issues       |-> validity_issues(d),
        accuracy_score        |-> accuracy,
        accuracy_issues       |-> accuracy_issues(d),
        timeliness_score      |-> timeliness,
        year_columns_found    |-> yc.year_columns_found,
        old_years_count       |-> yc.old_years_count,
        timeliness_applicable |-> timeliness # None,
        column_details        |-> column_details(d)]

----------------------------------------------------------------------------
(* The generated tables *)

s_age == <<"a", "g", "e">>

s_year == <<"y", "e", "a", "r">>

s_Quantity == <<"Q", "u", "a", "n", "t", "i", "t", "y">>

s_name == <<"n", "a", "m", "e">>

s_emails == <<"e", "m", "a", "i", "l", "s">>

s_joined == <<"j", "o", "i", "n", "e", "d">>

s_notes == <<"n", "o", "t", "e", "s">>

s_amount == <<"a", "m", "o", "u", "n", "t">>

v_Bob == Str(<<"B", "o", "b">>)

v_Alice == Str(<<"A", "l", "i", "c", "e">>)

v_12 == Str(<<"1", "2">>)

v_email1 == Str(<<"a", "@", "b", ".", "c", "o", "m">>)

v_notemail == Str(<<"n", "o", "t", "-", "a", "n", "-", "e", "m", "a", "i", "l">>)

v_email2 == Str(<<"c", "@", "d", ".", "o", "r", "g">>)

v_date_old == Str(<<"2", "0", "1", "0", "-", "0", "5", "-", "0", "1">>)

v_date_new == Str(<<"2", "0", "2", "4", "-", "0", "1", "-", "3", "1">>)

v_ref_old == Str(<<"r", "e", "f", " ", "1", "9", "9", "9">>)

\* a text of 1001 characters
v_long == Str([i \in 1..1001 |-> "x"])

\* the clock read by datetime.now().year
CurrentYears == {2025, 2026}

\* column name, dtype and the values a cell of the column is drawn from; an
\* int64 column has no missing cell (pandas stores such a column as float64)
Schemas ==
    { [name |-> s_age,      dtype |-> "int64",   dom |-> {Num(-5), Num(30)}],
      [name |-> s_year,     dtype |-> "int64",   dom |-> {Num(1995), Num(2015), Num(30)}],
      [name |-> s_Quantity, dtype |-> "float64", dom |-> {Num(-5), Num(2020), Num(Inf), Null}],
      [name |-> s_name,     dtype |-> "object",  dom |-> {v_Bob, v_Alice, v_12, Null}],
      [name |-> s_emails,   dtype |-> "object",  dom |-> {v_email1, v_notemail, v_email2}],
      [name |-> s_joined,   dtype |-> "object",  dom |-> {v_date_old, v_date_new, v_ref_old}] }

ColumnsOfLen(r) ==
    UNION { { [name |-> sc.name, dtype |-> sc.dtype, cells |-> c] : c \in [1..r -> sc.dom] }
            : sc \in Schemas }

Mk(r, cols) == [nrows |-> r, cols |-> cols]

\* every table of r rows and c columns with distinct names
TablesOf(r, c) ==
    { Mk(r, cols) : cols \in { cs \in [1..c -> ColumnsOfLen(r)] :
                                 \A i \in 1..c : \A j \in 1..c : i # j => cs[i].name # cs[j].name } }

SmallTables ==
    UNION { TablesOf(rc[1], rc[2]) :
              rc \in { x \in (0..MaxRows) \X (0..MaxCols) : x[1] * x[2] <= MaxCells } }

Col(name, dtype, cells) == [name |-> name, dtype |-> dtype, cells |-> cells]

ScenarioA ==
    Mk(2, << Col(s_age, "int64", <<Num(-5), Num(30)>>),
             Col(s_name, "object", <<v_Bob, v_Alice>>) >>)

ScenarioB == Mk(3, << Col(s_emails, "object", <<v_email1, v_notemail, v_email2>>) >>)

ScenarioC ==
    Mk(4, << Col(s_year, "int64", <<Num(2024), Num(2023), Num(2010), Num(1995)>>) >>)

ScenarioD ==
    Mk(3, << Col(s_name, "object", <<v_Bob, v_Bob, v_Bob>>),
             Col(s_age, "int64", <<Num(30), Num(30), Num(30)>>) >>)

\* one numeric column of 10 to LongLen cells: a ramp or a constant, then two
\* free cells
LongTables ==
    { Mk(n, << Col(s_amount, "float64",
                   [i \in 1..n |-> IF i <= n - 2
                                   THEN (IF ramp THEN Num(i) ELSE Num(5))
                                   ELSE tl[i - (n - 2)]]) >>) :
        n \in 10..LongLen, ramp \in BOOLEAN,
        tl \in [1..2 -> {Num(5), Num(500), Num(-500), Null}] }

\* a text column holding an over-long value
NotesTables ==
    { Mk(r, << Col(s_notes, "object", c) >>) :
        r \in 1..2, c \in UNION { [1..k -> {v_long, v_Bob, Null}] : k \in 1..2 } }

s_stamp == <<"s", "t", "a", "m", "p">>

v_tz_old == Str(<<"2", "0", "1", "0", "-", "0", "5", "-", "0", "1", " ", "0", "0", ":", "0", "0", ":", "0", "0", "+", "0", "1", ":", "0", "0">>)

v_tz_new == Str(<<"2", "0", "2", "4", "-", "0", "1", "-", "3", "1", " ", "0", "0", ":", "0", "0", ":", "0", "0", "+", "0", "2", ":", "0", "0">>)

\* a text column of date-times with UTC offsets
TzTables ==
    { Mk(r, << Col(s_stamp, "object", c) >>) :
        r \in 1..3, c \in UNION { [1..k -> {v_tz_old, v_tz_new, Null}] : k \in 1..3 } }

\* the behaviour of pd.to_datetime on mixed offsets matters for the table
HasMixedOffsets(d) == \E j \in DOMAIN d.cols : MixedOffsets(DropnaStr(d.cols[j]))

Tables ==
    SmallTables \cup {ScenarioA, ScenarioB, ScenarioC, ScenarioD} \cup LongTables
    \cup { t \in TzTables : \A j \in DOMAIN t.cols : Len(t.cols[j].cells) = t.nrows }
    \cup { t \in NotesTables : \A j \in DOMAIN t.cols : Len(t.cols[j].cells) = t.nrows }

----------------------------------------------------------------------------
(* The state machine: a table is handed to assess_data_quality once; the   *)
(* clock and the installed pandas are part of the environment              *)

NoReport == [status |-> "none"]

Init ==
    /\ df \in Tables
    /\ current_year \in CurrentYears
    /\ mixed_tz \in (IF HasMixedOffsets(df) THEN {"object", "raise"} ELSE {"object"})
    /\ pc = "ready"
    /\ report = NoReport

Assess ==
    /\ pc = "ready"
    /\ report' = assess_data_quality(df, current_year, mixed_tz)
    /\ pc' = "done"
    /\ UNCHANGED <<df, current_year, mixed_tz>>

Next == Assess

Spec == Init /\ [][Next]_vars

Done == pc = "done"

----------------------------------------------------------------------------
(* Properties *)

R100 == RInt(100)

InRange(x) == RLe(RInt(0), x) /\ RLe(x, R100)

FiveScores ==
    <<report.completeness_score, report.consistency_score, report.uniqueness_score,
      report.validity_score, report.accuracy_score>>

\* the cells of the table as (column, row) pairs
CellIndex == {jc \in (1..Len(df.cols)) \X (1..df.nrows) : TRUE}

CellAt(jc) == df.cols[jc[1]].cells[jc[2]]

\* C1: each of the five scores lies in [0, 100], and so does the timeliness
\* score whenever it is not null.
C1_ScoresInRange ==
    Done =>
        /\ \A i \in 1..5 : InRange(FiveScores[i])
        /\ report.timeliness_score # None => InRange(report.timeliness_score)

\* C1 witness: a year column so stale that the clamp at 0 decides the score
C1_Witness ==
    /\ Done
    /\ report.timeliness_score = RInt(0)
    /\ report.old_years_count * 150 > report.total_rows * 100

\* C2: overall_score is the mean of the five scores when timeliness is null
\* and the mean of the six scores otherwise.
C2_OverallIsMean ==
    Done =>
        IF report.timeliness_score = None
        THEN RMul(report.overall_score, RInt(5)) = RSumSeq(FiveScores)
        ELSE RMul(report.overall_score, RInt(6))
                 = RAdd(RSumSeq(FiveScores), report.timeliness_score)

\* C2 witness: timeliness is null and the five scores are not all 100
C2_Witness ==
    /\ Done
    /\ report.timeliness_score = None
    /\ RLt(report.overall_score, R100)
    /\ RLt(RInt(0), report.overall_score)

\* no numeric column and no text value that parses as a date or holds a year
NoYearData ==
    \A j \in 1..Len(df.cols) :
        /\ df.cols[j].dtype = "object"
        /\ \A i \in 1..df.nrows :
              LET c == df.cols[j].cells[i]
              IN c.t = "str" => ParsedYear(c.s) = 0 /\ YearMatches(c.s) = {}

\* C3: timeliness is null and flagged not applicable exactly when no year
\* column was found or the table has no rows; a table without numeric and
\* date-like columns is such a table; a null timeliness stays out of the mean.
C3_TimelinessApplicability ==
    Done =>
        /\ (report.timeliness_score = None /\ ~report.timeliness_applicable)
              <=> (report.year_columns_found = 0 \/ report.total_rows = 0)
        /\ report.timeliness_score = None <=> ~report.timeliness_applicable
        /\ NoYearData => report.timeliness_score = None /\ ~report.timeliness_applicable
        /\ report.timeliness_score = None
              => RMul(report.overall_score, RInt(5)) = RSumSeq(FiveScores)

\* C3 witness: a non-empty table of text columns without any year data
C3_Witness ==
    /\ Done
    /\ df.nrows >= 1 /\ Len(df.cols) >= 1
    /\ NoYearData
    /\ ~report.timeliness_applicable

MissingCells == Cardinality({jc \in CellIndex : CellAt(jc).t = "null"})

\* C4: with r >= 1 rows, c >= 1 columns and m missing cells, missing_values
\* is m, missing_percentage is 100*m/(r*c) and completeness_score is
\* 100 - 100*m/(r*c).
C4_Completeness ==
    (Done /\ df.nrows >= 1 /\ Len(df.cols) >= 1) =>
        LET rc == df.nrows * Len(df.cols)
        IN /\ report.missing_values = MissingCells
           /\ report.missing_percentage = Rat(100 * MissingCells, rc)
           /\ report.completeness_score = Rat(100 * rc - 100 * MissingCells, rc)

\* C4 witness: two columns, some but not all cells missing
C4_Witness ==
    /\ Done
    /\ Len(df.cols) >= 2
    /\ MissingCells > 0
    /\ MissingCells < df.nrows * Len(df.cols)
    /\ \E i \in 1..df.nrows : CellAt(<<2, i>>).t = "null"

\* the table with every row duplicated
DoubleRows(d) ==
    [nrows |-> 2 * d.nrows,
     cols  |-> [j \in DOMAIN d.cols |->
                  [name |-> d.cols[j].name, dtype |-> d.cols[j].dtype,
                   cells |-> [i \in 1..(2 * d.nrows) |-> d.cols[j].cells[(i + 1) \div 2]]]]]

\* C5: the uniqueness score of the table with every row duplicated is at
\* most the uniqueness score of the table.
C5_DoublingNeverIncreases ==
    Done =>
        RLe(assess_data_quality(DoubleRows(df), current_year, mixed_tz).uniqueness_score,
            report.uniqueness_score)

\* C5 witness: a table of distinct rows, whose doubling lowers the score
C5_Witness ==
    /\ Done
    /\ df.nrows >= 2
    /\ report.duplicate_rows = 0
    /\ RLt(assess_data_quality(DoubleRows(df), current_year, mixed_tz).uniqueness_score,
           report.uniqueness_score)

\* the non-missing cells of column j
Present(j) == {i \in 1..df.nrows : df.cols[j].cells[i].t # "null"}

NumericDtype(j) == df.cols[j].dtype \in {"int64", "float64"}

\* the only column is numeric and more than 70% of its values are in [1900, 2100]
SingleYearColumn ==
    /\ Len(df.cols) = 1
    /\ NumericDtype(1)
    /\ Present(1) # {}
    /\ 10 * Cardinality({i \in Present(1) : df.cols[1].cells[i].n \in 1900..2100})
          > 7 * Cardinality(Present(1))

StaleCount == Cardinality({i \in Present(1) : df.cols[1].cells[i].n < current_year - 10})

\* C6: a single numeric column with more than 70% of its values in
\* [1900, 2100] is one year column, old_years_count is the number of values
\* below current_year - 10 and timeliness_score is
\* max(0, 100 - 1.5 * 100 * old_years_count / total_rows); for
\* year = [2024, 2023, 2010, 1995] in 2025 that is 2 and 25.
C6_NumericYearColumn ==
    /\ (Done /\ SingleYearColumn) =>
          /\ report.year_columns_found = 1
          /\ report.old_years_count = StaleCount
          /\ report.timeliness_score =
                (IF 150 * StaleCount >= 100 * df.nrows THEN RInt(0)
                 ELSE Rat(100 * df.nrows - 150 * StaleCount, df.nrows))
    /\ (Done /\ df = ScenarioC /\ current_year = 2025) =>
          /\ report.year_columns_found = 1
          /\ report.old_years_count = 2
          /\ report.timeliness_score = RInt(25)

\* C6 witness: the table year = [2024, 2023, 2010, 1995] assessed in 2025
C6_Witness == Done /\ df = ScenarioC /\ current_year = 2025 /\ SingleYearColumn

NoInfinite == \A jc \in CellIndex : CellAt(jc).t = "num" => Abs(CellAt(jc).n) # Inf

NoLongText == \A jc \in CellIndex : CellAt(jc).t = "str" => Len(CellAt(jc).s) <= 1000

NameHolds(j, kw) == Contains(kw, Lower(df.cols[j].name))

NegativeChecked(j) ==
    /\ NumericDtype(j)
    /\ \/ NameHolds(j, <<"a", "g", "e">>)
       \/ NameHolds(j, <<"c", "o", "u", "n", "t">>)
       \/ NameHolds(j, <<"q", "u", "a", "n", "t", "i", "t", "y">>)

NegativeCells ==
    Cardinality({jc \in CellIndex :
                   NegativeChecked(jc[1]) /\ CellAt(jc).t = "num" /\ CellAt(jc).n < 0})

\* C7: without infinite values and over-long texts, validity_issues is the
\* number of negative values in the numeric columns whose name holds "age",
\* "count" or "quantity" in any case, and validity_score is
\* max(0, 100 - 100 * validity_issues / total_cells); for age = [-5, 30],
\* name = ["Bob", "Alice"] that is 1 and 75.
C7_Validity ==
    /\ (Done /\ NoInfinite /\ NoLongText) =>
          LET tc == IF df.nrows * Len(df.cols) > 0 THEN df.nrows * Len(df.cols) ELSE 1
          IN /\ report.validity_issues = NegativeCells
             /\ report.validity_score = Rat(100 * tc - 100 * NegativeCells, tc)
    /\ (Done /\ df = ScenarioA) =>
          /\ report.validity_issues = 1
          /\ report.validity_score = RInt(75)

\* C7 witness: a negative value under a name that matches only after lower()
C7_Witness ==
    /\ Done /\ NoInfinite /\ NoLongText
    /\ \E j \in 1..Len(df.cols) :
          /\ NegativeChecked(j)
          /\ ~Contains(<<"q", "u", "a", "n", "t", "i", "t", "y">>, df.cols[j].name)
          /\ ~Contains(<<"a", "g", "e">>, df.cols[j].name)
          /\ \E i \in Present(j) : df.cols[j].cells[i].n < 0

FirstPresent(j) == CHOOSE i \in Present(j) : \A k \in Present(j) : i <= k

StrAt(j, i) == AsStr(df.cols[j].cells[i], df.cols[j].dtype)

HasAt(v) == \E k \in 1..Len(v) : v[k] = "@"

\* the email check runs on column j
EmailRuns(j) == Present(j) # {} /\ HasAt(StrAt(j, FirstPresent(j)))

BadEmails(j) == Cardinality({i \in Present(j) : ~MatchesEmail(StrAt(j, i))})

RECURSIVE SumBadEmails(_)
SumBadEmails(j) ==
    IF j = 0 THEN 0
    ELSE SumBadEmails(j - 1) + (IF EmailRuns(j) THEN BadEmails(j) ELSE 0)

\* C8: consistency_issues is the number of non-matching values of the columns
\* whose first non-missing value holds '@'; a column whose first value has no
\* '@' adds nothing; emails = ["a@b.com", "not-an-email", "c@d.org"] gives 1.
C8_EmailCheck ==
    /\ Done => report.consistency_issues = SumBadEmails(Len(df.cols))
    /\ (Done /\ df = ScenarioB) => report.consistency_issues = 1

\* C8 witness: a leading value without '@' followed by emails and by another
\* value that is no email: the check is skipped
C8_Witness ==
    /\ Done
    /\ report.consistency_issues = 0
    /\ \E j \in 1..Len(df.cols) :
          /\ Present(j) # {}
          /\ ~EmailRuns(j)
          /\ \E i \in Present(j) : MatchesEmail(StrAt(j, i))

TableRow(i) == [j \in 1..Len(df.cols) |-> df.cols[j].cells[i]]

LaterCopies == Cardinality({i \in 1..df.nrows : \E k \in 1..(i - 1) : TableRow(k) = TableRow(i)})

AllRowsIdentical == \A i \in 1..df.nrows : TableRow(i) = TableRow(1)

\* C9 as stated: duplicate_rows is the number of rows with an identical
\* earlier row, duplicate_percentage is 100 * duplicate_rows / total_rows,
\* n >= 1 identical rows give n - 1.
C9_AsStated ==
    (Done /\ df.nrows >= 1) =>
        /\ report.duplicate_rows = LaterCopies
        /\ report.duplicate_percentage = Rat(100 * LaterCopies, df.nrows)
        /\ AllRowsIdentical => report.duplicate_rows = df.nrows - 1

\* C9: in a table with at least one column, duplicate_rows is the number of
\* rows with an identical earlier row, duplicate_percentage is
\* 100 * duplicate_rows / total_rows, n >= 1 identical rows give n - 1 and
\* 3 identical rows of 2 columns give 2 and 200/3; a table without columns
\* has duplicate_rows 0.
C9_DuplicateRows ==
    /\ (Done /\ df.nrows >= 1 /\ Len(df.cols) >= 1) =>
          /\ report.duplicate_rows = LaterCopies
          /\ report.duplicate_percentage = Rat(100 * LaterCopies, df.nrows)
          /\ AllRowsIdentical => report.duplicate_rows = df.nrows - 1
    /\ (Done /\ df = ScenarioD) =>
          /\ report.duplicate_rows = 2
          /\ report.duplicate_percentage = Rat(200, 3)
    /\ (Done /\ Len(df.cols) = 0) => report.duplicate_rows = 0

\* C9 witness: 3 identical rows of 2 columns
C9_Witness == Done /\ df = ScenarioD /\ AllRowsIdentical /\ report.duplicate_rows = 2

\* C10: on a table without rows or without columns every score is a number,
\* missing_percentage is 0, completeness_score is 100, duplicate_percentage
\* is 0 and timeliness_score is null.
C10_EmptyTable ==
    (Done /\ (df.nrows = 0 \/ Len(df.cols) = 0)) =>
        /\ \A i \in 1..5 : RDefined(FiveScores[i])
        /\ RDefined(report.overall_score)
        /\ report.missing_percentage = RInt(0)
        /\ report.completeness_score = R100
        /\ report.duplicate_percentage = RInt(0)
        /\ report.timeliness_score = None
        /\ ~report.timeliness_applicable

\* C10 witness: a table with columns and no rows
C10_Witness == Done /\ df.nrows = 0 /\ Len(df.cols) >= 1 /\ report.total_rows = 0

\* what the pass over column j counted
Pass(j) == ColumnTimeliness(df.cols[j], current_year, mixed_tz)

Hits(j) ==
    (IF Pass(j).numeric THEN 1 ELSE 0) + (IF Pass(j).date_counted THEN 1 ELSE 0)
    + (IF Pass(j).pattern THEN 1 ELSE 0) + (IF Pass(j).name THEN 1 ELSE 0)

\* C11 as stated: every column is counted by at most one strategy, so
\* year_columns_found never exceeds total_columns, and the name-hinted
\* fallback never counts a column that strategies 1-3 counted.
C11_AsStated ==
    Done =>
        /\ report.year_columns_found <= report.total_columns
        /\ \A j \in 1..Len(df.cols) :
              /\ Hits(j) <= 1
              /\ Pass(j).name => ~(Pass(j).numeric \/ Pass(j).date_counted \/ Pass(j).pattern)

\* C11 away from date texts with mixed UTC offsets
C11_WithoutMixedOffsets ==
    (Done /\ ~HasMixedOffsets(df)) =>
        /\ report.year_columns_found <= report.total_columns
        /\ \A j \in 1..Len(df.cols) :
              /\ Hits(j) <= 1
              /\ Pass(j).name => ~(Pass(j).numeric \/ Pass(j).date_counted \/ Pass(j).pattern)

====
